---- MODULE Spec2Model ----
(***************************************************************************)
(* Shift-assignment conflict resolution of dash-backend                    *)
(* (src/controller/shiftAssignController.js).  The assignment table is the *)
(* sequence `store`; a record's id is its position (autoincrement).  Each  *)
(* handler is modelled twice from the same query and write operators: as   *)
(* one atomic action (requests served one after the other, Spec) and as    *)
(* one action per awaited store call (requests in flight together,         *)
(* SpecConc).                                                              *)
(***************************************************************************)
EXTENDS Integers, Sequences, FiniteSets, TLC

VARIABLES store,   \* shift_assignments rows, id = index
          now,     \* clock read by `new Date()` in deleteShiftAssignment
          res,     \* the response sent last (sequential handlers)
          procs,   \* requests in flight (interleaved handlers)
          probe    \* the inputs put to one query or helper alone, and its answers

vars == <<store, now, res, procs, probe>>

----------------------------------------------------------------------------
(* Bounds *)
MaxRecords == 2      \* rows the table may hold
MaxDate == 2         \* dates are 1..MaxDate
MaxBatch == 2        \* longest user_ids array
MaxProbeDate == 3    \* dates of the ranges put to the overlap query alone
MaxPage == 3         \* largest page number asked of the pagination helper
MaxOver == 50        \* how far a limit may exceed maxLimit
MaxTotal == 210      \* rows of the largest paginated table

(* null / undefined: an absent date, id or number, smaller than every      *)
(* value the field can hold                                                *)
NULL == 0

(* notes: notes || null, and an absent status in an update request *)
NoNotes == "null"
NoStatus == "undefined"

(* new Date("9999-12-31"), the stand-in for a missing candidate endDate *)
FarFuture == 9999

Dates == 1..MaxDate
Workers == {1, 2}
Companies == {1}

(* The shifts table (read-only here): shift 3 is soft-deleted, shift 4     *)
(* belongs to another company.                                             *)
ShiftTable ==
  { [id |-> 1, company_id |-> 1, deleted_at |-> NULL],
    [id |-> 2, company_id |-> 1, deleted_at |-> NULL],
    [id |-> 3, company_id |-> 1, deleted_at |-> 1],
    [id |-> 4, company_id |-> 2, deleted_at |-> NULL] }

----------------------------------------------------------------------------
(* Identifier conversions.  A user id arrives as a JSON value; `val` is    *)
(* BigInt(id) and `canon` says whether id.toString() is the decimal        *)
(* spelling BigInt(id).toString() ("1") or another spelling of the same    *)
(* id ("01").                                                              *)
UserIdInputs ==
  { [val |-> 1, canon |-> TRUE], [val |-> 1, canon |-> FALSE],
    [val |-> 2, canon |-> TRUE] }

BigIntOf(id) == id.val

InputToString(id) == id

BigIntToString(v) == [val |-> v, canon |-> TRUE]

SeqMap(F(_), s) == [i \in 1..Len(s) |-> F(s[i])]

SeqRange(s) == { s[i] : i \in 1..Len(s) }

----------------------------------------------------------------------------
(* Prisma where-clauses *)

(* the where clause without its status and deleted_at conditions *)
ActiveNotDeleted_Unfiltered(a) == a.status \in {"active", "inactive"}

(* status: "active", deleted_at: null *)
ActiveNotDeleted(a) == a.status = "active" /\ a.deleted_at = NULL

(* The OR block of both overlap queries; a comparison with a null column   *)
(* matches no row.                                                         *)
OverlapWhere(a, parsedStart, parsedEnd) ==
  \/ /\ a.startDate <= (IF parsedEnd # NULL THEN parsedEnd ELSE FarFuture)
     /\ a.endDate # NULL
     /\ a.endDate >= parsedStart
  \/ /\ a.startDate <= parsedStart
     /\ a.endDate = NULL

(* ids of the rows of st matching Match, in table order *)
FindMany(st, Match(_, _)) ==
  SelectSeq([i \in 1..Len(st) |-> i], LAMBDA i : Match(i, st[i]))

----------------------------------------------------------------------------
(* createShiftAssignments *)

(* user_ids arrays: a single id in any spelling, or up to MaxBatch ids in  *)
(* decimal spelling (the same id may occur twice)                          *)
UserIdArrays ==
  { a \in UNION { [1..n -> UserIdInputs] : n \in 1..MaxBatch } :
      Len(a) = 1 \/ \A i \in 1..Len(a) : a[i].canon }

CreateValidationFails(r) ==
  \/ r.shiftId = NULL
  \/ r.company_id = NULL
  \/ r.startDate = NULL
  \/ r.role_id = NULL
  \/ Len(r.user_ids) = 0

(* the date check left out *)
EndBeforeStart_Skipped(parsedStart, parsedEnd) == FALSE

EndBeforeStart(parsedStart, parsedEnd) ==
  parsedEnd # NULL /\ parsedEnd < parsedStart

ShiftFound(r) ==
  \E s \in ShiftTable :
    s.id = r.shiftId /\ s.company_id = r.company_id /\ s.deleted_at = NULL

UserBigInts(r) == { BigIntOf(r.user_ids[i]) : i \in 1..Len(r.user_ids) }

(* the same-shift query without its status and deleted_at conditions *)
ExistingSameShift_AnyStatus(st, r) ==
  FindMany(st, LAMBDA i, a :
    /\ a.shiftId = r.shiftId
    /\ a.user_id \in UserBigInts(r))

ExistingSameShift(st, r) ==
  FindMany(st, LAMBDA i, a :
    /\ a.shiftId = r.shiftId
    /\ a.user_id \in UserBigInts(r)
    /\ ActiveNotDeleted(a))

OverlappingAssignments(st, r) ==
  FindMany(st, LAMBDA i, a :
    /\ a.user_id \in UserBigInts(r)
    /\ ActiveNotDeleted(a)
    /\ OverlapWhere(a, r.startDate, r.endDate))

DuplicateUserIds(st, r) ==
  SeqMap(LAMBDA i : BigIntToString(st[i].user_id), ExistingSameShift(st, r))

OverlappingUserIds(st, r) ==
  SeqMap(LAMBDA i : BigIntToString(st[i].user_id), OverlappingAssignments(st, r))

UsersToAssign(r, dups, ovs) ==
  SelectSeq(r.user_ids,
            LAMBDA id : InputToString(id) \notin (SeqRange(dups) \cup SeqRange(ovs)))

AssignmentsToCreate(r, uta) ==
  [i \in 1..Len(uta) |->
     [shiftId |-> r.shiftId,
      user_id |-> BigIntOf(uta[i]),
      startDate |-> r.startDate,
      endDate |-> r.endDate,
      role_id |-> r.role_id,
      notes |-> r.notes,
      status |-> "active",
      deleted_at |-> NULL]]

CreateMany(st, data) == st \o data

(* The response for a request whose two conflict queries returned dups and *)
(* ovs, and the table after the request's write to st.                     *)
CreateOutcome(st, r, dups, ovs) ==
  LET uta == UsersToAssign(r, dups, ovs)
      data == AssignmentsToCreate(r, uta)
  IN IF Len(uta) = 0
     THEN [store |-> st,
           res |-> [op |-> "create", code |-> 400,
                    duplicates |-> dups, overlapping |-> ovs]]
     ELSE [store |-> CreateMany(st, data),
           res |-> [op |-> "create", code |-> 201,
                    created |-> Len(data),
                    skipped |-> Len(r.user_ids) - Len(uta),
                    duplicateUserIds |-> dups,
                    overlappingUserIds |-> ovs]]

(* The status of the response sent before any assignment query, 0 if none *)
CreateEarlyCode(r) ==
  IF CreateValidationFails(r) THEN 400
  ELSE IF EndBeforeStart(r.startDate, r.endDate) THEN 400
  ELSE IF ~ShiftFound(r) THEN 404
  ELSE 0

(* The handler from its first line: the response and the table it leaves *)
CreateResult(st, r) ==
  IF CreateEarlyCode(r) # 0
  THEN [store |-> st, res |-> [op |-> "create", code |-> CreateEarlyCode(r)]]
  ELSE CreateOutcome(st, r, DuplicateUserIds(st, r), OverlappingUserIds(st, r))

CreateInputs ==
  [shiftId : {1, 2}, company_id : Companies, startDate : Dates,
   endDate : Dates \cup {NULL}, role_id : {1}, notes : {NoNotes},
   user_ids : UserIdArrays]

(* Requests the validation or the shift lookup turns away *)
BadCreateInputs ==
  LET ok == [shiftId |-> 1, company_id |-> 1, startDate |-> 1, endDate |-> NULL,
             role_id |-> 1, notes |-> NoNotes,
             user_ids |-> <<[val |-> 1, canon |-> TRUE]>>]
  IN { [ok EXCEPT !.shiftId = NULL], [ok EXCEPT !.company_id = NULL],
       [ok EXCEPT !.startDate = NULL], [ok EXCEPT !.role_id = NULL],
       [ok EXCEPT !.user_ids = <<>>],
       [ok EXCEPT !.shiftId = 3], [ok EXCEPT !.shiftId = 4],
       [ok EXCEPT !.shiftId = 5], [ok EXCEPT !.company_id = 2] }

----------------------------------------------------------------------------
(* updateShiftAssignment *)

InvalidId(id) == id = NULL

(* the lookup without its deleted_at condition *)
FindFirstNotDeleted_AnyRow(st, id) ==
  IF id \in 1..Len(st) THEN <<st[id]>> ELSE <<>>

(* findFirst({ id, deleted_at: null }): the row as read, or nothing *)
FindFirstNotDeleted(st, id) ==
  IF id \in 1..Len(st) /\ st[id].deleted_at = NULL THEN <<st[id]>> ELSE <<>>

ParsedStart(r, assignment) ==
  IF r.startDate # NULL THEN r.startDate ELSE assignment.startDate

ParsedEnd(r, assignment) ==
  IF r.endDate # NULL THEN r.endDate ELSE assignment.endDate

(* the overlap query without id: { not: id } *)
UpdateOverlapping_IncludingSelf(st, r, assignment) ==
  FindMany(st, LAMBDA i, a :
    /\ a.user_id = assignment.user_id
    /\ ActiveNotDeleted(a)
    /\ OverlapWhere(a, ParsedStart(r, assignment), ParsedEnd(r, assignment)))

UpdateOverlapping(st, r, assignment) ==
  FindMany(st, LAMBDA i, a :
    /\ i # r.id
    /\ a.user_id = assignment.user_id
    /\ ActiveNotDeleted(a)
    /\ OverlapWhere(a, ParsedStart(r, assignment), ParsedEnd(r, assignment)))

UpdateData(r, assignment) ==
  [startDate |-> ParsedStart(r, assignment),
   endDate |-> ParsedEnd(r, assignment),
   status |-> IF r.status # NoStatus THEN r.status ELSE assignment.status,
   notes |-> IF r.notes # NoNotes THEN r.notes ELSE assignment.notes,
   role_id |-> IF r.role_id # NULL THEN r.role_id ELSE assignment.role_id]

(* update({ where: { id }, data }) *)
UpdateRow(st, id, data) ==
  [st EXCEPT ![id] =
     [f \in DOMAIN @ |-> IF f \in DOMAIN data THEN data[f] ELSE @[f]]]

(* The handler from its first line: the response and the table it leaves *)
UpdateOutcome(st, r) ==
  LET found == FindFirstNotDeleted(st, r.id)
      assignment == found[1]
      updated == UpdateRow(st, r.id, UpdateData(r, assignment))
  IN IF InvalidId(r.id)
     THEN [store |-> st, res |-> [op |-> "update", code |-> 400, why |-> "id"]]
     ELSE IF found = <<>>
     THEN [store |-> st, res |-> [op |-> "update", code |-> 404, why |-> "absent"]]
     ELSE IF EndBeforeStart(ParsedStart(r, assignment), ParsedEnd(r, assignment))
     THEN [store |-> st, res |-> [op |-> "update", code |-> 400, why |-> "dates"]]
     ELSE IF UpdateOverlapping(st, r, assignment) # <<>>
     THEN [store |-> st, res |-> [op |-> "update", code |-> 400, why |-> "overlap"]]
     ELSE [store |-> updated,
           res |-> [op |-> "update", code |-> 200, data |-> updated[r.id]]]

UpdateInputs ==
  [id : 1..MaxRecords, startDate : Dates \cup {NULL},
   endDate : Dates \cup {NULL}, status : {NoStatus, "active", "inactive"},
   notes : {NoNotes}, role_id : {NULL}]

BadUpdateInputs ==
  { [id |-> NULL, startDate |-> NULL, endDate |-> NULL, status |-> NoStatus,
     notes |-> NoNotes, role_id |-> NULL] }

----------------------------------------------------------------------------
(* toggleShiftAssignmentStatus, deleteShiftAssignment *)

(* a toggle that only ever deactivates *)
NewStatus_AlwaysInactive(assignment) == "inactive"

NewStatus(assignment) ==
  IF assignment.status = "active" THEN "inactive" ELSE "active"

ToggleData(assignment) == [status |-> NewStatus(assignment)]

DeleteData(t) == [deleted_at |-> t, status |-> "inactive"]

(* The toggle handler from its first line *)
ToggleOutcome(st, id) ==
  LET found == FindFirstNotDeleted(st, id)
      updated == UpdateRow(st, id, ToggleData(found[1]))
  IN IF InvalidId(id)
     THEN [store |-> st, res |-> [op |-> "toggle", code |-> 400]]
     ELSE IF found = <<>>
     THEN [store |-> st, res |-> [op |-> "toggle", code |-> 404]]
     ELSE [store |-> updated,
           res |-> [op |-> "toggle", code |-> 200, data |-> updated[id]]]

(* The delete handler from its first line, new Date() reading t *)
DeleteOutcome(st, id, t) ==
  LET found == FindFirstNotDeleted(st, id)
  IN IF InvalidId(id)
     THEN [store |-> st, res |-> [op |-> "delete", code |-> 400]]
     ELSE IF found = <<>>
     THEN [store |-> st, res |-> [op |-> "delete", code |-> 404]]
     ELSE [store |-> UpdateRow(st, id, DeleteData(t)),
           res |-> [op |-> "delete", code |-> 200]]

IdInputs == 1..MaxRecords \cup {NULL}

----------------------------------------------------------------------------
(* Requests served one after the other: each handler runs to its response  *)
(* before the next request starts.                                         *)

NoProcs == <<>>

NoProbe == <<>>

Init ==
  /\ store = <<>>
  /\ now = 1
  /\ res = [op |-> "none", code |-> 0]
  /\ procs = NoProcs
  /\ probe = NoProbe

createShiftAssignments(r) ==
  LET out == CreateResult(store, r)
  IN /\ Len(out.store) <= MaxRecords    \* the table's bound
     /\ res' = out.res
     /\ store' = out.store
     /\ UNCHANGED <<now, procs, probe>>

updateShiftAssignment(r) ==
  LET out == UpdateOutcome(store, r)
  IN /\ res' = out.res
     /\ store' = out.store
     /\ UNCHANGED <<now, procs, probe>>

toggleShiftAssignmentStatus(id) ==
  LET out == ToggleOutcome(store, id)
  IN /\ res' = out.res
     /\ store' = out.store
     /\ UNCHANGED <<now, procs, probe>>

deleteShiftAssignment(id) ==
  LET out == DeleteOutcome(store, id, now)
  IN /\ res' = out.res
     /\ store' = out.store
     /\ now' = IF out.res.code = 200 THEN now + 1 ELSE now
     /\ UNCHANGED <<procs, probe>>

Next ==
  \/ \E r \in CreateInputs \cup BadCreateInputs : createShiftAssignments(r)
  \/ \E r \in UpdateInputs \cup BadUpdateInputs : updateShiftAssignment(r)
  \/ \E id \in IdInputs : toggleShiftAssignmentStatus(id)
  \/ \E id \in IdInputs : deleteShiftAssignment(id)

Spec == Init /\ [][Next]_vars

----------------------------------------------------------------------------
(* Requests in flight together.  Node runs a handler up to its next await  *)
(* in one piece; every awaited Prisma call is one statement on the table,  *)
(* and nothing wraps a handler's calls in a transaction.  Each slot serves *)
(* one request; procs[p] is the handler's position and its local values.   *)

Slots == {1, 2}

Idle == [pc |-> "idle"]

Done(op, r, response) == [pc |-> "done", op |-> op, req |-> r, res |-> response]

(* Tables the interleaved requests may find: empty, or as left by one      *)
(* accepted createShiftAssignments request.                                *)
SeedCreateInputs ==
  { r \in CreateInputs : r.shiftId = 1 /\ Len(r.user_ids) = 1
                         /\ r.user_ids[1].canon }

SeedStores ==
  {<<>>} \cup
  { CreateOutcome(<<>>, r, <<>>, <<>>).store :
      r \in { q \in SeedCreateInputs : CreateEarlyCode(q) = 0 } }

ConcCreateInputs ==
  { r \in CreateInputs : Len(r.user_ids) = 1 /\ r.user_ids[1].canon }

ConcUpdateInputs ==
  { r \in UpdateInputs : r.id = 1 }

ConcIdInputs == {1}

InitConc ==
  /\ store \in SeedStores
  /\ now = 1
  /\ res = [op |-> "none", code |-> 0]
  /\ procs = [p \in Slots |-> Idle]
  /\ probe = NoProbe

(* A slot takes a request once the slots before it have taken theirs. *)
CanBegin(p) ==
  /\ procs[p] = Idle
  /\ \A q \in Slots : q < p => procs[q] # Idle

Goto(p, state) ==
  /\ procs' = [procs EXCEPT ![p] = state]
  /\ UNCHANGED <<res, probe>>

(* Validation and the shift lookup, up to the first assignment query *)
CreateBegin(p, r) ==
  /\ CanBegin(p)
  /\ IF CreateEarlyCode(r) # 0
     THEN Goto(p, Done("create", r, [op |-> "create", code |-> CreateEarlyCode(r)]))
     ELSE Goto(p, [pc |-> "sameShift", op |-> "create", req |-> r])
  /\ UNCHANGED <<store, now>>

CreateFindSameShift(p) ==
  /\ procs[p].pc = "sameShift"
  /\ Goto(p, [pc |-> "overlapping", op |-> "create", req |-> procs[p].req,
              dups |-> DuplicateUserIds(store, procs[p].req)])
  /\ UNCHANGED <<store, now>>

CreateFindOverlapping(p) ==
  /\ procs[p].pc = "overlapping" /\ procs[p].op = "create"
  /\ LET r == procs[p].req
         dups == procs[p].dups
         ovs == OverlappingUserIds(store, r)
     IN IF Len(UsersToAssign(r, dups, ovs)) = 0
        THEN Goto(p, Done("create", r, CreateOutcome(store, r, dups, ovs).res))
        ELSE Goto(p, [pc |-> "createMany", op |-> "create", req |-> r,
                      dups |-> dups, ovs |-> ovs])
  /\ UNCHANGED <<store, now>>

CreateWrite(p) ==
  /\ procs[p].pc = "createMany"
  /\ LET out == CreateOutcome(store, procs[p].req, procs[p].dups, procs[p].ovs)
     IN /\ store' = out.store
        /\ Goto(p, Done("create", procs[p].req, out.res))
  /\ UNCHANGED now

UpdateFind(p, r) ==
  /\ CanBegin(p)
  /\ LET found == FindFirstNotDeleted(store, r.id)
         assignment == found[1]
     IN IF InvalidId(r.id)
        THEN Goto(p, Done("update", r, [op |-> "update", code |-> 400, why |-> "id"]))
        ELSE IF found = <<>>
        THEN Goto(p, Done("update", r, [op |-> "update", code |-> 404, why |-> "absent"]))
        ELSE IF EndBeforeStart(ParsedStart(r, assignment), ParsedEnd(r, assignment))
        THEN Goto(p, Done("update", r, [op |-> "update", code |-> 400, why |-> "dates"]))
        ELSE Goto(p, [pc |-> "overlapping", op |-> "update", req |-> r,
                      assignment |-> assignment])
  /\ UNCHANGED <<store, now>>

UpdateFindOverlapping(p) ==
  /\ procs[p].pc = "overlapping" /\ procs[p].op = "update"
  /\ IF UpdateOverlapping(store, procs[p].req, procs[p].assignment) # <<>>
     THEN Goto(p, Done("update", procs[p].req,
                       [op |-> "update", code |-> 400, why |-> "overlap"]))
     ELSE Goto(p, [procs[p] EXCEPT !.pc = "update"])
  /\ UNCHANGED <<store, now>>

UpdateWrite(p) ==
  /\ procs[p].pc = "update" /\ procs[p].op = "update"
  /\ LET r == procs[p].req
     IN /\ store' = UpdateRow(store, r.id, UpdateData(r, procs[p].assignment))
        /\ Goto(p, Done("update", r,
                        [op |-> "update", code |-> 200, data |-> store'[r.id]]))
  /\ UNCHANGED now

ToggleFind(p, id) ==
  /\ CanBegin(p)
  /\ LET found == FindFirstNotDeleted(store, id)
     IN IF InvalidId(id)
        THEN Goto(p, Done("toggle", id, [op |-> "toggle", code |-> 400]))
        ELSE IF found = <<>>
        THEN Goto(p, Done("toggle", id, [op |-> "toggle", code |-> 404]))
        ELSE Goto(p, [pc |-> "update", op |-> "toggle", req |-> id,
                      assignment |-> found[1]])
  /\ UNCHANGED <<store, now>>

ToggleWrite(p) ==
  /\ procs[p].pc = "update" /\ procs[p].op = "toggle"
  /\ LET id == procs[p].req
     IN /\ store' = UpdateRow(store, id, ToggleData(procs[p].assignment))
        /\ Goto(p, Done("toggle", id,
                        [op |-> "toggle", code |-> 200, data |-> store'[id]]))
  /\ UNCHANGED now

DeleteFind(p, id) ==
  /\ CanBegin(p)
  /\ LET found == FindFirstNotDeleted(store, id)
     IN IF InvalidId(id)
        THEN Goto(p, Done("delete", id, [op |-> "delete", code |-> 400]))
        ELSE IF found = <<>>
        THEN Goto(p, Done("delete", id, [op |-> "delete", code |-> 404]))
        ELSE Goto(p, [pc |-> "update", op |-> "delete", req |-> id])
  /\ UNCHANGED <<store, now>>

DeleteWrite(p) ==
  /\ procs[p].pc = "update" /\ procs[p].op = "delete"
  /\ store' = UpdateRow(store, procs[p].req, DeleteData(now))
  /\ now' = now + 1
  /\ Goto(p, Done("delete", procs[p].req, [op |-> "delete", code |-> 200]))

NextConc ==
  \/ \E p \in Slots, r \in ConcCreateInputs : CreateBegin(p, r)
  \/ \E p \in Slots : CreateFindSameShift(p)
  \/ \E p \in Slots : CreateFindOverlapping(p)
  \/ \E p \in Slots : CreateWrite(p)
  \/ \E p \in Slots, r \in ConcUpdateInputs : UpdateFind(p, r)
  \/ \E p \in Slots : UpdateFindOverlapping(p)
  \/ \E p \in Slots : UpdateWrite(p)
  \/ \E p \in Slots, id \in ConcIdInputs : ToggleFind(p, id)
  \/ \E p \in Slots : ToggleWrite(p)
  \/ \E p \in Slots, id \in ConcIdInputs : DeleteFind(p, id)
  \/ \E p \in Slots : DeleteWrite(p)

SpecConc == InitConc /\ [][NextConc]_vars

----------------------------------------------------------------------------
(* The overlap query on its own: one stored active assignment and one      *)
(* candidate range, asked both ways round.                                 *)

ProbeRanges ==
  { rg \in [startDate : 1..MaxProbeDate, endDate : (1..MaxProbeDate) \cup {NULL}] :
      ~EndBeforeStart(rg.startDate, rg.endDate) }

(* an active assignment of worker 1 on shift 1 over the range rg *)
RowOf(rg) ==
  [shiftId |-> 1, user_id |-> 1, startDate |-> rg.startDate,
   endDate |-> rg.endDate, role_id |-> 1, notes |-> NoNotes,
   status |-> "active", deleted_at |-> NULL]

(* does the overlap query of create and update, run for the candidate      *)
(* range, return the stored assignment?                                    *)
OverlapFound(stored, candidate) ==
  FindMany(<<RowOf(stored)>>, LAMBDA i, a :
    ActiveNotDeleted(a)
    /\ OverlapWhere(a, candidate.startDate, candidate.endDate)) # <<>>

InitOverlap ==
  /\ store = <<>>
  /\ now = 1
  /\ res = [op |-> "none", code |-> 0]
  /\ procs = NoProcs
  /\ probe \in [A : ProbeRanges, B : ProbeRanges, asked : {FALSE}]

AskOverlap ==
  /\ ~probe.asked
  /\ probe' = [A |-> probe.A, B |-> probe.B, asked |-> TRUE,
                AB |-> OverlapFound(probe.A, probe.B),
                BA |-> OverlapFound(probe.B, probe.A)]
  /\ UNCHANGED <<store, now, res, procs>>

NextOverlap == AskOverlap

SpecOverlap == InitOverlap /\ [][NextOverlap]_vars

----------------------------------------------------------------------------
(* The overlap rule of the specification: A overlaps B iff                 *)
(* A.start <= (B.end or +infinity) and (A.end or +infinity) >= B.start.    *)

Unbounded(rg) == rg.endDate = NULL

Overlaps(A, B) ==
  /\ (Unbounded(B) \/ A.startDate <= B.endDate)
  /\ (Unbounded(A) \/ A.endDate >= B.startDate)

(* C8: the overlap query returns a stored assignment E for a candidate     *)
(* range C exactly when E.start <= (C.end or +infinity) and                *)
(* (E.end or +infinity) >= C.start, for bounded and open-ended E and C.    *)
C8_QueryIsOverlapRule ==
  (probe # NoProbe /\ probe.asked) => (probe.AB = Overlaps(probe.A, probe.B))

(* C9: the overlap query is symmetric: with A stored and B the candidate   *)
(* it answers as with B stored and A the candidate.                        *)
C9_QuerySymmetric ==
  (probe # NoProbe /\ probe.asked) => (probe.AB = probe.BA)

----------------------------------------------------------------------------
(* Invariants of the assignment table *)

RangeOf(a) == [startDate |-> a.startDate, endDate |-> a.endDate]

IsActive(a) == a.status = "active" /\ a.deleted_at = NULL

(* C1: for each worker the assignments with status = active and            *)
(* deleted_at = null are pairwise non-overlapping in time, in every state  *)
(* reached by create, update, toggle and delete calls.                     *)
C1_ActiveRangesDisjoint ==
  \A i, j \in 1..Len(store) :
    (i < j /\ store[i].user_id = store[j].user_id
           /\ IsActive(store[i]) /\ IsActive(store[j]))
      => ~Overlaps(RangeOf(store[i]), RangeOf(store[j]))

(* C2: each (worker, shift) pair has at most one assignment with           *)
(* status = active and deleted_at = null, in every state reached by        *)
(* create, update, toggle and delete calls.                                *)
C2_OneActivePerWorkerShift ==
  \A i, j \in 1..Len(store) :
    (i < j /\ store[i].user_id = store[j].user_id
           /\ store[i].shiftId = store[j].shiftId)
      => ~(IsActive(store[i]) /\ IsActive(store[j]))

----------------------------------------------------------------------------
(* Two batch creates in flight together *)

FinishedCreate(p) == procs[p].pc = "done" /\ procs[p].op = "create"

Requests(p, w) == w \in UserBigInts(procs[p].req)

(* the request of slot p inserted a row for worker w *)
CreatedFor(p, w) ==
  /\ procs[p].res.code = 201
  /\ \E i \in 1..Len(procs[p].req.user_ids) :
       /\ BigIntOf(procs[p].req.user_ids[i]) = w
       /\ InputToString(procs[p].req.user_ids[i]) \notin
            (SeqRange(procs[p].res.duplicateUserIds)
               \cup SeqRange(procs[p].res.overlappingUserIds))

RowsOf(w) == { i \in 1..Len(store) : store[i].user_id = w }

(* Slots p and q have both answered a create for worker w, on different    *)
(* shifts and for ranges that overlap each other, and w had no assignment  *)
(* before the two requests.                                                *)
RivalCreates(p, q, w) ==
  /\ p # q
  /\ FinishedCreate(p) /\ FinishedCreate(q)
  /\ procs[p].res.code \in {201, 400} /\ procs[q].res.code \in {201, 400}
  /\ ~CreateValidationFails(procs[p].req) /\ ~CreateValidationFails(procs[q].req)
  /\ ~EndBeforeStart(procs[p].req.startDate, procs[p].req.endDate)
  /\ ~EndBeforeStart(procs[q].req.startDate, procs[q].req.endDate)
  /\ Requests(p, w) /\ Requests(q, w)
  /\ procs[p].req.shiftId # procs[q].req.shiftId
  /\ Overlaps(RangeOf(procs[p].req), RangeOf(procs[q].req))
  /\ Cardinality(RowsOf(w)) = Cardinality({ x \in {p, q} : CreatedFor(x, w) })

(* C3: of two concurrent creates assigning the same worker, on different   *)
(* shifts, to ranges that overlap each other, exactly one creates the      *)
(* worker's assignment and the other rejects the worker, in every          *)
(* interleaving of their store reads and writes.                           *)
C3_ExactlyOneRivalCreateWins ==
  \A p, q \in Slots : \A w \in Workers :
    (procs # NoProcs /\ RivalCreates(p, q, w))
      => (CreatedFor(p, w) # CreatedFor(q, w))

----------------------------------------------------------------------------
(* Batch create: who is written, and what the response reports *)

ValidCreate(r) == CreateEarlyCode(r) = 0

(* the workers named by a list of id strings of a response *)
WorkersIn(ids) == { BigIntOf(ids[i]) : i \in 1..Len(ids) }

(* the rows a step added to the table *)
Inserted == (Len(store) + 1)..Len(store')

(* C4: a create that passes validation writes exactly workerIds minus      *)
(* (duplicates union overlapping): one new active assignment for each      *)
(* assignable worker, none for a worker of the duplicate or the            *)
(* overlapping set.                                                        *)
C4_WritesExactlyAssignable ==
  [][\A r \in CreateInputs :
       (ValidCreate(r) /\ createShiftAssignments(r)) =>
         LET blocked == WorkersIn(DuplicateUserIds(store, r))
                          \cup WorkersIn(OverlappingUserIds(store, r))
             assignable == UserBigInts(r) \ blocked
         IN \A w \in Workers :
              /\ \A i \in Inserted : store'[i].status = "active"
              /\ Cardinality({ i \in Inserted : store'[i].user_id = w })
                   = IF w \in assignable THEN 1 ELSE 0]_vars

HoldsActiveOn(st, w, shiftId) ==
  \E i \in 1..Len(st) :
    st[i].user_id = w /\ st[i].shiftId = shiftId /\ IsActive(st[i])

C6_AllBlockedRejected ==
  [][\A r \in CreateInputs :
       (/\ ValidCreate(r)
        /\ createShiftAssignments(r)
        /\ UserBigInts(r) \subseteq
             (WorkersIn(DuplicateUserIds(store, r))
                \cup WorkersIn(OverlappingUserIds(store, r))))
       => /\ res'.code = 400
          /\ res'.duplicates = DuplicateUserIds(store, r)
          /\ res'.overlapping = OverlappingUserIds(store, r)
          /\ store' = store]_vars

----------------------------------------------------------------------------
(* Update against the worker's other assignments *)

(* the range an update request leaves on the row it edits *)
ResultingRange(r, a) ==
  [startDate |-> ParsedStart(r, a), endDate |-> ParsedEnd(r, a)]

(* the update can reach its overlap check: the row exists, is not deleted, *)
(* and the resulting range does not end before it starts                   *)
ReachesOverlapCheck(st, r) ==
  /\ FindFirstNotDeleted(st, r.id) # <<>>
  /\ ~EndBeforeStart(ParsedStart(r, st[r.id]), ParsedEnd(r, st[r.id]))

(* C7: an update whose resulting range overlaps another active non-deleted *)
(* assignment of the same worker is rejected with Conflict and leaves the  *)
(* stored record unchanged, whether the other assignment is bounded or     *)
(* open-ended and whether it starts before or after the resulting start.   *)
C7_OverlappingUpdateRejected ==
  [][\A r \in UpdateInputs :
       (/\ updateShiftAssignment(r)
        /\ ReachesOverlapCheck(store, r)
        /\ \E j \in 1..Len(store) :
             /\ j # r.id
             /\ store[j].user_id = store[r.id].user_id
             /\ IsActive(store[j])
             /\ Overlaps(RangeOf(store[j]), ResultingRange(r, store[r.id])))
       => (res'.code = 400 /\ store' = store)]_vars

----------------------------------------------------------------------------
(* Soft delete and the conflict checks *)

(* the rows that block a create request: same-shift duplicates and overlaps *)
Blockers(st, r) ==
  SeqRange(ExistingSameShift(st, r)) \cup SeqRange(OverlappingAssignments(st, r))

(* the table after deleteShiftAssignment succeeds on row id *)
AfterDelete(id) == UpdateRow(store, id, DeleteData(now))

(* C10: once deleteShiftAssignment has succeeded on an assignment, no      *)
(* duplicate or overlap check returns it, and a create or update that was  *)
(* blocked only by that assignment is accepted after the deletion.         *)
C10_DeletedIgnoredByChecks ==
  /\ \A r \in CreateInputs :
       ValidCreate(r) =>
         LET blockers == Blockers(store, r)
         IN /\ \A i \in blockers : store[i].deleted_at = NULL
            /\ \A id \in blockers :
                 (blockers = {id} /\ FindFirstNotDeleted(store, id) # <<>>) =>
                   LET out == CreateOutcome(AfterDelete(id), r,
                                            DuplicateUserIds(AfterDelete(id), r),
                                            OverlappingUserIds(AfterDelete(id), r))
                   IN out.res.code = 201 /\ out.res.created = Len(r.user_ids)
  /\ \A r \in UpdateInputs :
       ReachesOverlapCheck(store, r) =>
         LET blockers == SeqRange(UpdateOverlapping(store, r, store[r.id]))
         IN /\ \A i \in blockers : store[i].deleted_at = NULL
            /\ \A id \in blockers :
                 (blockers = {id} /\ FindFirstNotDeleted(store, id) # <<>>) =>
                   UpdateOverlapping(AfterDelete(id), r, store[r.id]) = <<>>

(* a create was accepted for a worker, shift and range that a deleted      *)
(* assignment of the same worker covers                                    *)
C10_Witness ==
  /\ res.op = "create" /\ res.code = 201
  /\ Len(store) = 2
  /\ store[1].deleted_at # NULL
  /\ store[2].user_id = store[1].user_id
  /\ store[2].shiftId = store[1].shiftId
  /\ Overlaps(RangeOf(store[1]), RangeOf(store[2]))
  /\ IsActive(store[2])

----------------------------------------------------------------------------
(* Status toggle *)

(* the table after toggleShiftAssignmentStatus succeeds on row id of st *)
AfterToggle(st, id) ==
  UpdateRow(st, id, ToggleData(FindFirstNotDeleted(st, id)[1]))

----------------------------------------------------------------------------
(* Date order *)

(* a range whose end is present and earlier than its start *)
EndsEarly(rg) == rg.endDate # NULL /\ rg.endDate < rg.startDate

(* C12: every stored assignment with an endDate has endDate >= startDate:  *)
(* a create whose endDate is earlier than its startDate, and an update     *)
(* whose resulting endDate is earlier than its resulting startDate (also   *)
(* one that supplies only a startDate later than the stored endDate), is   *)
(* rejected and writes nothing.                                            *)
C12_EndNotBeforeStart ==
  /\ \A i \in 1..Len(store) : ~EndsEarly(RangeOf(store[i]))
  /\ \A r \in CreateInputs :
       EndsEarly(RangeOf(r)) =>
         LET out == CreateResult(store, r)
         IN out.res.code = 400 /\ out.store = store
  /\ \A r \in UpdateInputs :
       (/\ FindFirstNotDeleted(store, r.id) # <<>>
        /\ EndsEarly(ResultingRange(r, store[r.id])))
         => LET out == UpdateOutcome(store, r)
            IN out.res.code = 400 /\ out.store = store

(* an update was turned away for its dates while the table holds a bounded *)
(* assignment                                                              *)
C12_Witness ==
  /\ res.op = "update" /\ res.code = 400 /\ res.why = "dates"
  /\ \E i \in 1..Len(store) :
       store[i].endDate # NULL /\ store[i].deleted_at = NULL

----------------------------------------------------------------------------
(* Soft delete as a one-way transition *)

IsDeleted(a) == a.deleted_at # NULL

(* C13: every assignment with deleted_at set has status = inactive, in     *)
(* every state, also when a delete runs together with an update or a       *)
(* toggle of the same assignment.                                          *)
C13_DeletedAreInactive ==
  \A i \in 1..Len(store) : IsDeleted(store[i]) => store[i].status = "inactive"

(* C14: deletion is a one-way transition.  A delete of an absent or        *)
(* already deleted id answers NotFound and changes nothing; no operation   *)
(* clears or changes a deleted_at that is set; and no operation removes a  *)
(* row: the ids of the table never shrink.                                 *)
C14_DeleteOneWay ==
  [][/\ Len(store') >= Len(store)
     /\ \A i \in 1..Len(store) :
          IsDeleted(store[i]) => store'[i].deleted_at = store[i].deleted_at
     /\ \A p \in Slots : \A id \in ConcIdInputs :
          (/\ id > Len(store) \/ IsDeleted(store[id])
           /\ DeleteFind(p, id))
            => (procs'[p].res.code = 404 /\ store' = store)]_vars

----------------------------------------------------------------------------
(* Rejected requests *)

(* a create request with a required field missing or an empty user_ids *)
MissingField(r) ==
  \/ NULL \in {r.shiftId, r.company_id, r.startDate, r.role_id}
  \/ r.user_ids = <<>>

(* the shifts of a company that are not soft-deleted *)
LiveShiftsOf(company) ==
  { s.id : s \in { t \in ShiftTable :
                     t.company_id = company /\ t.deleted_at = NULL } }

(* the update request names no row, or a soft-deleted one *)
NamesNoLiveRow(st, r) ==
  r.id \notin 1..Len(st) \/ IsDeleted(st[r.id])

(* C15: a create or update request that ends in InvalidInput (missing      *)
(* shiftId, company_id, startDate or role_id, empty user_ids, end before   *)
(* start, invalid id) or in NotFound (shift absent, soft-deleted or of     *)
(* another company; assignment absent or soft-deleted) leaves the          *)
(* assignment table unchanged.                                             *)
C15_RejectedWritesNothing ==
  /\ \A r \in CreateInputs \cup BadCreateInputs :
       LET out == CreateResult(store, r)
       IN /\ (MissingField(r) \/ EndsEarly(RangeOf(r)))
               => (out.res.code = 400 /\ out.store = store)
          /\ (~MissingField(r) /\ ~EndsEarly(RangeOf(r))
                /\ r.shiftId \notin LiveShiftsOf(r.company_id))
               => (out.res.code = 404 /\ out.store = store)
  /\ \A r \in UpdateInputs \cup BadUpdateInputs :
       LET out == UpdateOutcome(store, r)
       IN /\ r.id = NULL => (out.res.code = 400 /\ out.store = store)
          /\ (r.id # NULL /\ NamesNoLiveRow(store, r))
               => (out.res.code = 404 /\ out.store = store)
          /\ (r.id # NULL /\ ~NamesNoLiveRow(store, r)
                /\ EndsEarly(ResultingRange(r, store[r.id])))
               => (out.res.code = 400 /\ out.store = store)

(* every id of the full table exists, one of them is soft-deleted, and the *)
(* last update request was answered NotFound: it named a deleted row       *)
C15_Witness ==
  /\ res.op = "update" /\ res.code = 404
  /\ Len(store) = MaxRecords
  /\ \E i \in 1..Len(store) : IsDeleted(store[i])

----------------------------------------------------------------------------
(* Same-shift duplicates *)

(* the duplicate list of a create response, rejected or not *)
ReportedDuplicates(response) ==
  IF response.code = 201 THEN response.duplicateUserIds ELSE response.duplicates

(* C16: a batch create reports as duplicate exactly the requested workers  *)
(* who hold an active non-deleted assignment on the requested shift,       *)
(* whatever the dates (an inactive or soft-deleted assignment on the shift *)
(* makes nobody a duplicate), and assigns none of them.                    *)
C16_SameShiftAlwaysDuplicate ==
  [][\A r \in CreateInputs :
       (ValidCreate(r) /\ createShiftAssignments(r)) =>
         LET holders == { w \in UserBigInts(r) :
                            HoldsActiveOn(store, w, r.shiftId) }
         IN /\ WorkersIn(ReportedDuplicates(res')) = holders
            /\ \A i \in Inserted : store'[i].user_id \notin holders]_vars

----------------------------------------------------------------------------
(* What an update is checked against *)

(* the rows an update of row id may conflict with: the other active,       *)
(* non-deleted assignments of the same worker                              *)
Rivals(st, id) ==
  { j \in 1..Len(st) : /\ j # id
                        /\ st[j].user_id = st[id].user_id
                        /\ IsActive(st[j]) }

(* C17: the overlap check of an update looks only at the other active,     *)
(* non-deleted assignments of the same worker: the rows its query returns  *)
(* are among them, an update rejected for overlap has such a row           *)
(* overlapping its resulting range, and an update with no such row is      *)
(* accepted, whatever its own stored range, the inactive and soft-deleted  *)
(* rows and the other workers' rows are.                                   *)
C17_UpdateCheckedAgainstRivals ==
  \A r \in UpdateInputs :
    ReachesOverlapCheck(store, r) =>
      LET out == UpdateOutcome(store, r)
          rivals == Rivals(store, r.id)
          hit == { j \in rivals :
                     Overlaps(RangeOf(store[j]), ResultingRange(r, store[r.id])) }
      IN /\ SeqRange(UpdateOverlapping(store, r, store[r.id])) \subseteq rivals
         /\ (out.res.code = 400) => hit # {}
         /\ (rivals = {}) => (out.res.code = 200)

(* an update was accepted on an active assignment whose resulting range    *)
(* overlaps an inactive or soft-deleted assignment of the same worker      *)
C17_Witness ==
  /\ res.op = "update" /\ res.code = 200
  /\ \E i, j \in 1..Len(store) :
       /\ i # j
       /\ res.data = store[i]
       /\ IsActive(store[i])
       /\ store[j].user_id = store[i].user_id
       /\ ~IsActive(store[j])
       /\ Overlaps(RangeOf(store[i]), RangeOf(store[j]))

----------------------------------------------------------------------------
(* Partial update *)

(* the fields of a row that an update request r supplies *)
Supplied(r) ==
  (IF r.startDate # NULL THEN {"startDate"} ELSE {})
    \cup (IF r.endDate # NULL THEN {"endDate"} ELSE {})
    \cup (IF r.status # NoStatus THEN {"status"} ELSE {})
    \cup (IF r.notes # NoNotes THEN {"notes"} ELSE {})
    \cup (IF r.role_id # NULL THEN {"role_id"} ELSE {})

(* C18: the write of a successful update leaves every field the request    *)
(* does not supply as it is stored at the moment of the write, and never   *)
(* changes shiftId, user_id or deleted_at: an update that supplies no       *)
(* status does not undo a toggle of the same record that completed between *)
(* the update's read and its write.                                        *)
C18_UpdateKeepsUnsuppliedFields ==
  [][\A p \in Slots :
       UpdateWrite(p) =>
         LET r == procs[p].req
         IN \A f \in DOMAIN store[r.id] :
              f \notin Supplied(r) => store'[r.id][f] = store[r.id][f]]_vars

----------------------------------------------------------------------------
(* An update in flight together with a create *)

FinishedUpdate(p) == procs[p].pc = "done" /\ procs[p].op = "update"

(* Slot p has applied an update that leaves its row active, slot q has     *)
(* created another assignment for the same worker (the table held the      *)
(* updated row before the create inserted its own), and the two resulting  *)
(* ranges overlap.                                                         *)
BothApplied(p, q) ==
  /\ p # q
  /\ Len(store) = 2
  /\ FinishedUpdate(p) /\ procs[p].res.code = 200
  /\ IsActive(procs[p].res.data)
  /\ FinishedCreate(q)
  /\ CreatedFor(q, procs[p].res.data.user_id)
  /\ Overlaps(RangeOf(procs[p].res.data), RangeOf(procs[q].req))

(* C19: when an update of one of a worker's assignments and a create for   *)
(* the same worker are in flight together and their resulting ranges       *)
(* overlap, at most one of them is applied and the other is reported as a  *)
(* conflict, in every interleaving of their reads and writes.              *)
C19_UpdateAndCreateNotBothApplied ==
  \A p, q \in Slots : procs # NoProcs => ~BothApplied(p, q)

----------------------------------------------------------------------------
(* Two toggles in flight together *)

ToggledOk(p) ==
  procs[p].pc = "done" /\ procs[p].op = "toggle" /\ procs[p].res.code = 200

(* C20: when two toggles of the same non-deleted assignment are in flight  *)
(* together and both succeed, the final status is the original one (every  *)
(* row the two requests can find was created active and nothing else       *)
(* touches it), in every interleaving of their reads and writes.           *)
C20_TwoTogglesRestore ==
  (procs # NoProcs /\ \A p \in Slots : ToggledOk(p))
    => \A id \in ConcIdInputs : store[id].status = "active"

----------------------------------------------------------------------------
(* Pagination helpers (src/controller/serviceRequestController.js).  The   *)
(* rows matching a query, in its order, are the positions 0..total-1.      *)

(* parsePaginationParams' option defaults *)
defaultPage == 1
defaultLimit == 10
maxLimit == 100

Max(a, b) == IF a >= b THEN a ELSE b

Min(a, b) == IF a <= b THEN a ELSE b

(* parseInt(x) || d for an integer x: parseInt gives x, and 0 is falsy *)
ParseIntOr(x, d) == IF x # 0 THEN x ELSE d

parsePaginationParams(query) ==
  LET page == Max(1, ParseIntOr(query.page, defaultPage))
      limit == Min(Max(1, ParseIntOr(query.limit, defaultLimit)), maxLimit)
  IN [page |-> page, limit |-> limit, skip |-> (page - 1) * limit]

(* findMany({ skip, take }) on total rows, take >= 0: the rows from       *)
(* position skip on, at most take of them                                  *)
FindManyPage(total, skip, take) ==
  [i \in 1..Max(0, Min(skip + take, total) - skip) |-> skip + i - 1]

(* the data of paginateWithPrisma(model, { page, limit }) *)
PaginateData(total, page, limit) ==
  FindManyPage(total, parsePaginationParams([page |-> page, limit |-> limit]).skip,
               limit)

PageInputs == (-1)..MaxPage

LimitInputs ==
  (0..3) \cup {defaultLimit, maxLimit - 1, maxLimit, maxLimit + 1,
                  maxLimit + MaxOver}

TotalInputs == {0, 3, 25, MaxTotal}

InitPage ==
  /\ store = <<>>
  /\ now = 1
  /\ res = [op |-> "none", code |-> 0]
  /\ procs = NoProcs
  /\ probe \in [page : PageInputs, limit : LimitInputs, total : TotalInputs,
                 asked : {FALSE}]

paginateWithPrisma ==
  /\ ~probe.asked
  /\ probe' = [page |-> probe.page, limit |-> probe.limit, total |-> probe.total,
                asked |-> TRUE,
                params |-> parsePaginationParams([page |-> probe.page,
                                                  limit |-> probe.limit]),
                data |-> PaginateData(probe.total, probe.page, probe.limit)]
  /\ UNCHANGED <<store, now, res, procs>>

NextPage == paginateWithPrisma

SpecPage == InitPage /\ [][NextPage]_vars

(* the positions (p-1)*L .. p*L-1 that exist among total rows, in order *)
Window(total, p, L) ==
  [i \in 1..Max(0, Min(p * L, total) - (p - 1) * L) |-> (p - 1) * L + i - 1]

(* C21: for every integer page and limit, parsePaginationParams yields     *)
(* page >= 1, 1 <= limit <= maxLimit and skip = (page-1)*limit, and        *)
(* paginateWithPrisma returns for page p exactly the rows at positions     *)
(* (p-1)*L .. p*L-1 for the one page size L the skip is computed from (the *)
(* clamped limit), also for limits above maxLimit and below 1, so that     *)
(* consecutive pages are disjoint and contiguous.                          *)
C21_PagesAreWindows ==
  (probe # NoProbe /\ probe.asked) =>
    LET L == probe.params.limit
    IN /\ probe.params.page >= 1
       /\ 1 <= L /\ L <= maxLimit
       /\ probe.params.skip = (probe.params.page - 1) * L
       /\ probe.data = Window(probe.total, probe.params.page, L)
       /\ \A p \in 1..MaxPage :
            /\ PaginateData(probe.total, p, probe.limit)
                 = Window(probe.total, p, L)
            /\ SeqRange(PaginateData(probe.total, p, probe.limit))
                 \cap SeqRange(PaginateData(probe.total, p + 1, probe.limit)) = {}

====
